---- MODULE Spec2Model ----
(***************************************************************************)
(* Model of tools/fluffos_build_monitor.py: the FluffOSBuildMonitor class  *)
(* (text classification, progress state machine, backoff scheduler) and    *)
(* the polling loop monitor_build_to_completion.                           *)
(*                                                                         *)
(* Text is modelled by TLA+ strings; the Python string and regular         *)
(* expression operations the monitor uses are computed character by        *)
(* character on them.                                                      *)
(***************************************************************************)
EXTENDS Integers, Sequences, FiniteSets, TLC

(***************************************************************************)
(* Bounds of the exploration.                                              *)
(***************************************************************************)
\* number of direct check_build_status calls of a client, when the fetch can do anything
MaxChecks == 2
\* number of direct check_build_status calls of a client, when the build is quiet
MaxQuietChecks == 4

(***************************************************************************)
(* Python str primitives.                                                  *)
(***************************************************************************)
Upper == <<"A","B","C","D","E","F","G","H","I","J","K","L","M",
           "N","O","P","Q","R","S","T","U","V","W","X","Y","Z">>
Lowercase == <<"a","b","c","d","e","f","g","h","i","j","k","l","m",
               "n","o","p","q","r","s","t","u","v","w","x","y","z">>
Digits == <<"0","1","2","3","4","5","6","7","8","9">>
Whitespace == {" ", "\t", "\n", "\r", "\f"}

CharAt(s, i) == SubSeq(s, i, i)

LowerChar(c) ==
  IF \E k \in 1..26 : Upper[k] = c
  THEN Lowercase[CHOOSE k \in 1..26 : Upper[k] = c]
  ELSE c

RECURSIVE LowerFrom(_, _)
LowerFrom(s, i) ==
  IF i > Len(s) THEN "" ELSE LowerChar(CharAt(s, i)) \o LowerFrom(s, i + 1)

\* str.lower()
LowerCalc(s) == LowerFrom(s, 1)

\* index of the first occurrence of sub in s at or after position from; 0 if none
FindFrom(s, sub, from) ==
  LET hits == {i \in from..(Len(s) - Len(sub) + 1) : SubSeq(s, i, i + Len(sub) - 1) = sub}
  IN IF hits = {} THEN 0 ELSE CHOOSE i \in hits : \A j \in hits : i <= j

\* Python `sub in s`
InCalc(sub, s) == FindFrom(s, sub, 1) # 0

\* str.split('\n')
RECURSIVE SplitLines(_)
SplitLines(s) ==
  LET nl == FindFrom(s, "\n", 1)
  IN IF nl = 0 THEN <<s>>
     ELSE <<SubSeq(s, 1, nl - 1)>> \o SplitLines(SubSeq(s, nl + 1, Len(s)))

\* str.strip()
StripCalc(s) ==
  LET keep == {i \in 1..Len(s) : CharAt(s, i) \notin Whitespace}
  IN IF keep = {} THEN ""
     ELSE SubSeq(s, CHOOSE i \in keep : \A j \in keep : i <= j,
                    CHOOSE i \in keep : \A j \in keep : j <= i)

IsDigit(c) == \E k \in 1..10 : Digits[k] = c
DigitValue(c) == (CHOOSE k \in 1..10 : Digits[k] = c) - 1

\* int(p) for a string of decimal digits
RECURSIVE IntOf(_)
IntOf(p) ==
  IF p = "" THEN 0
  ELSE 10 * IntOf(SubSeq(p, 1, Len(p) - 1)) + DigitValue(CharAt(p, Len(p)))

(***************************************************************************)
(* Python re primitives for the shapes of pattern the monitor uses.        *)
(* A pattern is either Percent (the progress marker \[\s*(\d+)%\]) or a    *)
(* sequence of literals joined by ".*" (Lit2("make", ":") is make.*:).     *)
(***************************************************************************)
Percent == [kind |-> "percent", parts |-> <<>>]
Lit1(a) == [kind |-> "lits", parts |-> <<a>>]
Lit2(a, b) == [kind |-> "lits", parts |-> <<a, b>>]
Lit3(a, b, c) == [kind |-> "lits", parts |-> <<a, b, c>>]

IsSpace(c) == c \in Whitespace

\* first position at or after i that does not hold a whitespace character (\s*)
RECURSIVE SkipSpaces(_, _)
SkipSpaces(s, i) ==
  IF i <= Len(s) /\ IsSpace(CharAt(s, i)) THEN SkipSpaces(s, i + 1) ELSE i

\* first position at or after i that does not hold a digit (\d*)
RECURSIVE SkipDigits(_, _)
SkipDigits(s, i) ==
  IF i <= Len(s) /\ IsDigit(CharAt(s, i)) THEN SkipDigits(s, i + 1) ELSE i

\* the digit group of a match of \[\s*(\d+)%\] that starts at position i, "" if none
PercentGroupAt(s, i) ==
  IF CharAt(s, i) # "[" THEN ""
  ELSE LET j == SkipSpaces(s, i + 1)
           k == SkipDigits(s, j)
       IN IF k > j /\ k + 1 <= Len(s) /\ SubSeq(s, k, k + 1) = "%]"
          THEN SubSeq(s, j, k - 1) ELSE ""

\* re.findall(r"\[\s*(\d+)%\]", s) as the set of the groups found
PercentGroups(s) ==
  {PercentGroupAt(s, i) : i \in {j \in 1..Len(s) : PercentGroupAt(s, j) # ""}}

\* the literals of parts occur in line in this order without overlap
RECURSIVE MatchParts(_, _)
MatchParts(parts, line) ==
  IF parts = <<>> THEN TRUE
  ELSE LET at == FindFrom(line, Head(parts), 1)
       IN IF at = 0 THEN FALSE
          ELSE MatchParts(Tail(parts), SubSeq(line, at + Len(Head(parts)), Len(line)))

LowerParts(parts) == [k \in 1..Len(parts) |-> LowerCalc(parts[k])]

\* re.search(pattern, s, re.IGNORECASE) is not None ("." does not match a newline)
SearchICCalc(pattern, s) ==
  IF pattern.kind = "percent" THEN PercentGroups(s) # {}
  ELSE LET lines == SplitLines(LowerCalc(s))
       IN \E n \in 1..Len(lines) : MatchParts(LowerParts(pattern.parts), lines[n])

(***************************************************************************)
(* The inputs explored: what the fetch command prints, and the constructor *)
(* arguments.                                                              *)
(***************************************************************************)
\* stdout of `claude bash-output <id>`: the chunk of build output of one fetch
Outputs ==
  { "",
    "status:running",
    "[ 42%] Building CXX object core.cc.o",
    "[ 80%] Built target package_http",
    "[150%] Building CXX object x.cc.o",
    "src/main.cc:3: error: boom",
    "src/main.cc:3: error: boom\n  src/main.cc:3: error: boom",
    "src/packages/http/http.cc:9: warning: unused variable",
    "src/packages/http/a.cc:1: warning: deprecated f\nsrc/packages/http/a.cc:2: warning: x is error: y",
    "[ 90%] warning: deprecated declaration treated as error: x",
    "-- Configuring done (cmake)\n-- Generating done",
    "Linking CXX executable driver",
    "Built target package_rest\nBuilt target package_rest",
    "status:completed",
    "[100%] Built target driver\nstatus:completed" }

\* stderr of the fetch command
ToolStderr == { "", "no such shell", "internal error" }

\* str(e) of an unexpected exception raised by subprocess.run
ExceptionTexts == { "No such file or directory: 'claude'" }

Exited(returncode, stdout, stderr) ==
  [kind |-> "exited", returncode |-> returncode, stdout |-> stdout, stderr |-> stderr, exc |-> ""]

\* outcomes of subprocess.run(cmd, capture_output=True, text=True, timeout=10)
ProcResults ==
  {Exited(0, o, "") : o \in Outputs}
  \cup {Exited(0, "", e) : e \in ToolStderr}
  \cup {Exited(0, "[ 42%] Building CXX object core.cc.o", "internal error")}
  \cup {Exited(1, "", e) : e \in ToolStderr}
  \cup {[kind |-> "TimeoutExpired", returncode |-> 0, stdout |-> "", stderr |-> "", exc |-> ""]}
  \cup {[kind |-> "Exception", returncode |-> 0, stdout |-> "", stderr |-> "", exc |-> e] :
          e \in ExceptionTexts}

\* the outcomes of a build that prints nothing or compiles steadily, without errors
QuietResults ==
  {Exited(0, o, "") : o \in {"", "[ 42%] Building CXX object core.cc.o"}}

\* the sessions explored: a short time limit with every outcome of the fetch, or
\* the default time limit (main(), --max-time) with a quiet build
Sessions ==
  { [max_duration |-> 5, source |-> ProcResults],
    [max_duration |-> 100, source |-> ProcResults],
    [max_duration |-> 3600, source |-> QuietResults] }

\* focus_packages arguments of the constructor (<<>> stands for None or an empty list)
FocusArgs == { <<>>, <<"http">>, <<"http", "rest", "http">> }
DefaultFocus == <<"http", "rest", "openapi">>
PackageNames == {"http", "rest", "openapi"}

\* seconds that pass between two direct calls of a client
ClockSteps == { 0, 60 }

(***************************************************************************)
(* The pattern lists of the monitor.                                       *)
(***************************************************************************)
activity_indicators ==
  << Percent, Lit2("Building", ".o"), Lit2("Linking", "executable"),
     Lit1("Built target"), Lit2("make", ":"), Lit1("cmake") >>

critical_error_patterns ==
  << Lit1("error:"), Lit1("fatal error:"), Lit1("compilation failed"),
     Lit1("build failed"), Lit2("make", "error"), Lit2("cmake", "error") >>

noise_patterns ==
  << Lit3("warning", "third", "party"), Lit2("warning", "libwebsockets"),
     Lit2("warning", "libevent"), Lit2("warning", "crypt"),
     Lit1("note: unrecognized command-line option"),
     Lit2("warning", "stringop-overflow"), Lit2("warning", "deprecated") >>

\* the package_ prefix of the target name left out
built_pattern_without_prefix(package) == Lit1("Built target " \o package)

\* rf"Built target package_{package}"
built_pattern(package) == Lit1("Built target package_" \o package)

milestones ==
  [cmake_start |-> 10, cmake_done |-> 20, core_start |-> 30,
   packages_start |-> 50, linking_start |-> 80, build_complete |-> 100]

wait_intervals == <<30, 60, 120, 240, 480, 900>>

Range(f) == {f[k] : k \in DOMAIN f}

(***************************************************************************)
(* The string operations are evaluated once for the texts of the inputs    *)
(* and looked up afterwards; any other text is computed directly.          *)
(***************************************************************************)
FetchErrorTexts ==
  {"Failed to get bash output: " \o e : e \in ToolStderr}
  \cup {"Timeout getting bash output"}
  \cup {"Error getting bash output: " \o e : e \in ExceptionTexts}

LinesTbl == [o \in Outputs |-> SplitLines(o)]
split_lines(s) == IF s \in Outputs THEN LinesTbl[s] ELSE SplitLines(s)

RawLines == UNION {Range(LinesTbl[o]) : o \in Outputs}
StripTbl == [l \in RawLines |-> StripCalc(l)]
strip(s) == IF s \in RawLines THEN StripTbl[s] ELSE StripCalc(s)

RawTexts == Outputs \cup ToolStderr \cup FetchErrorTexts \cup Range(StripTbl)
LowerTbl == [s \in RawTexts |-> LowerCalc(s)]
lower(s) == IF s \in RawTexts THEN LowerTbl[s] ELSE LowerCalc(s)

AllTexts == RawTexts \cup Range(LowerTbl)
Substrings(s) == {SubSeq(s, i, j) : i \in 1..(Len(s) + 1), j \in 0..Len(s)}
SubstrTbl == [s \in AllTexts |-> Substrings(s)]
In(sub, s) == IF s \in AllTexts THEN sub \in SubstrTbl[s] ELSE InCalc(sub, s)

AllPatterns ==
  Range(activity_indicators) \cup Range(critical_error_patterns)
  \cup Range(noise_patterns) \cup {built_pattern(p) : p \in PackageNames}
SearchTbl == [s \in RawTexts |-> [q \in AllPatterns |-> SearchICCalc(q, s)]]
re_search_ic(pattern, s) ==
  IF s \in RawTexts /\ pattern \in AllPatterns THEN SearchTbl[s][pattern]
  ELSE SearchICCalc(pattern, s)

PercentTbl == [s \in Outputs |-> {IntOf(g) : g \in PercentGroups(s)}]
\* {int(p) for p in re.findall(r"\[\s*(\d+)%\]", s)}
progress_matches(s) ==
  IF s \in Outputs THEN PercentTbl[s] ELSE {IntOf(g) : g \in PercentGroups(s)}

SetMax(S) == CHOOSE m \in S : \A n \in S : n <= m
Max2(a, b) == IF a >= b THEN a ELSE b
Min2(a, b) == IF a <= b THEN a ELSE b

(***************************************************************************)
(* The monitor object.  self is a record with the fields of                *)
(* FluffOSBuildMonitor under their names; times are seconds since          *)
(* self.start_time, so that the duration a call computes is the clock      *)
(* reading itself.                                                         *)
(***************************************************************************)
InSeq(x, seq) == \E k \in 1..Len(seq) : seq[k] = x

\* FluffOSBuildMonitor.__init__
__init__(focus_arg, max_duration_arg) ==
  [ focus_packages |-> IF focus_arg = <<>> THEN DefaultFocus ELSE focus_arg,
    max_duration |-> max_duration_arg,
    state |-> "starting",
    packages_built |-> <<>>,
    errors |-> <<>>,
    warnings |-> <<>>,
    current_interval_index |-> 0,
    consecutive_no_activity |-> 0,
    current_progress |-> 0 ]

\* _run_bash_output: (stdout, stderr, completed) for an outcome of subprocess.run
_run_bash_output(result) ==
  IF result.kind = "TimeoutExpired"
  THEN <<"", "Timeout getting bash output", FALSE>>
  ELSE IF result.kind = "Exception"
  THEN <<"", "Error getting bash output: " \o result.exc, FALSE>>
  ELSE IF result.returncode = 0
  THEN IF In("status:completed", lower(result.stdout))
       THEN <<result.stdout, "", TRUE>>
       ELSE IF In("status:running", lower(result.stdout))
       THEN <<result.stdout, "", FALSE>>
       ELSE <<result.stdout, result.stderr, FALSE>>
  ELSE <<"", "Failed to get bash output: " \o result.stderr, FALSE>>

_detect_build_activity(output) ==
  \E k \in 1..Len(activity_indicators) : re_search_ic(activity_indicators[k], output)

_extract_progress(self, output) ==
  LET low == lower(output)
      cur == self.current_progress
  IN IF progress_matches(output) # {}
     THEN SetMax(progress_matches(output))
     ELSE IF In("cmake", low) /\ In("configuring", low)
     THEN Max2(cur, milestones.cmake_start)
     ELSE IF In("generating done", low)
     THEN Max2(cur, milestones.cmake_done)
     ELSE IF In("building cxx object", low)
     THEN Max2(cur, milestones.core_start)
     ELSE IF \E k \in 1..Len(self.focus_packages) :
               In("package_" \o self.focus_packages[k], low)
     THEN Max2(cur, milestones.packages_start)
     ELSE IF In("linking", low) /\ In("executable", low)
     THEN Max2(cur, milestones.linking_start)
     ELSE IF In("built target", low) /\ (In("driver", low) \/ In("100%", output))
     THEN milestones.build_complete
     ELSE cur

\* the test forgotten: every match is appended again
not_yet_built_always(package, built) == TRUE

\* `package not in self.packages_built`, the test that guards the two appends
not_yet_built(package, built) == ~InSeq(package, built)

\* the loop of _extract_package_completions over focus_packages[k..]:
\* <<newly_built, self.packages_built>> when it ends
RECURSIVE completions_from(_, _, _, _, _)
completions_from(output, focus, k, newly, built) ==
  IF k > Len(focus) THEN <<newly, built>>
  ELSE IF re_search_ic(built_pattern(focus[k]), output) /\ not_yet_built(focus[k], built)
  THEN completions_from(output, focus, k + 1, Append(newly, focus[k]), Append(built, focus[k]))
  ELSE completions_from(output, focus, k + 1, newly, built)

\* _extract_package_completions: <<the list returned, self.packages_built afterwards>>
_extract_package_completions(self, output) ==
  completions_from(output, self.focus_packages, 1, <<>>, self.packages_built)

is_noise(line) == \E k \in 1..Len(noise_patterns) : re_search_ic(noise_patterns[k], line)
is_error(line) ==
  \E k \in 1..Len(critical_error_patterns) : re_search_ic(critical_error_patterns[k], line)
\* any(pattern in line for pattern in package_patterns), package_patterns = packages/<pkg>
is_package_related(line, focus) == \E k \in 1..Len(focus) : In("packages/" \o focus[k], line)
is_warning(line) == In("warning:", lower(line))

\* a target-related warning is not promoted
retained_as_error_critical_only(error, related, warning) == error

\* line 190: `if is_error or (is_package_related and is_warning)`
retained_as_error(error, related, warning) == error \/ (related /\ warning)

Messages(list) == [k \in 1..Len(list) |-> list[k].message]

\* the loop of _filter_errors_and_warnings over lines[k..]: <<new_errors, new_warnings>>
RECURSIVE filter_from(_, _, _, _, _)
filter_from(self, lines, k, new_errors, new_warnings) ==
  IF k > Len(lines) THEN <<new_errors, new_warnings>>
  ELSE
    LET line == strip(lines[k])
        related == is_package_related(line, self.focus_packages)
        rest(ne, nw) == filter_from(self, lines, k + 1, ne, nw)
    IN IF line = "" THEN rest(new_errors, new_warnings)
       ELSE IF is_noise(line) THEN rest(new_errors, new_warnings)
       ELSE IF retained_as_error(is_error(line), related, is_warning(line))
       THEN IF ~InSeq(line, Messages(self.errors))
            THEN rest(Append(new_errors,
                             [message |-> line, package_related |-> related,
                              critical |-> is_error(line)]),
                      new_warnings)
            ELSE rest(new_errors, new_warnings)
       ELSE IF is_warning(line) /\ related
       THEN IF ~InSeq(line, Messages(self.warnings))
            THEN rest(new_errors,
                      Append(new_warnings, [message |-> line, package_related |-> related]))
            ELSE rest(new_errors, new_warnings)
       ELSE rest(new_errors, new_warnings)

_filter_errors_and_warnings(self, output) ==
  filter_from(self, split_lines(output), 1, <<>>, <<>>)

\* error.get("critical", False)
IsCritical(error) == "critical" \in DOMAIN error /\ error.critical

\* `elif self.errors:` of the completed branch of _update_build_state
completed_with_errors(self) == self.errors # <<>>

\* only the oldest recorded error is looked at
has_critical_error_first_only(self) ==
  self.errors # <<>> /\ IsCritical(self.errors[1])

\* `any(error.get("critical", False) for error in self.errors)`
has_critical_error(self) == \E k \in 1..Len(self.errors) : IsCritical(self.errors[k])

_update_build_state(self, output, completed) ==
  IF completed
  THEN IF In("built target driver", lower(output)) \/ self.current_progress >= 100
       THEN "completed"
       ELSE IF completed_with_errors(self) THEN "failed"
       ELSE "completed"
  ELSE IF has_critical_error(self) THEN "failed"
  ELSE IF In("cmake", lower(output)) /\ self.current_progress < 30 THEN "configuring"
  ELSE IF self.current_progress < 50 THEN "compiling_core"
  ELSE IF self.current_progress < 80 THEN "compiling_packages"
  ELSE IF self.current_progress < 100 THEN "linking"
  ELSE "completed"

\* the BuildStatus built from the fields of self
BuildStatus(self, duration) ==
  [ state |-> self.state, progress |-> self.current_progress,
    packages_built |-> self.packages_built, packages_total |-> self.focus_packages,
    errors |-> self.errors, warnings |-> self.warnings, duration |-> duration ]

\* a recorded failure is not overwritten by the timeout
timed_out_unless_failed(self, duration) ==
  duration > self.max_duration /\ self.state # "failed"

\* `duration > self.max_duration`
timed_out(self, duration) == duration > self.max_duration

\* the extracted value is assigned directly
merge_progress_assign(cur, new_progress) == new_progress

\* `if new_progress > self.current_progress: self.current_progress = new_progress`
merge_progress(cur, new_progress) == IF new_progress > cur THEN new_progress ELSE cur

\* The body of check_build_status, statement by statement.  A frame holds the
\* monitor (self) and the locals of the call.

\* the timed-out call is counted as a check without activity
timeout_return_counting(self, duration) ==
  [ self |-> [self EXCEPT !.state = "timeout", !.consecutive_no_activity = @ + 1],
    ret |-> BuildStatus([self EXCEPT !.state = "timeout"], duration),
    locals |-> [ timeout |-> TRUE, fetched |-> FALSE, stdout |-> "", stderr |-> "",
                 completed |-> FALSE, has_activity |-> FALSE,
                 new_progress |-> self.current_progress, newly_built |-> <<>> ] ]

\* lines 275-285: the return of the timeout branch
timeout_return(self, duration) ==
  [ self |-> [self EXCEPT !.state = "timeout"],
    ret |-> BuildStatus([self EXCEPT !.state = "timeout"], duration),
    locals |-> [ timeout |-> TRUE, fetched |-> FALSE, stdout |-> "", stderr |-> "",
                 completed |-> FALSE, has_activity |-> FALSE,
                 new_progress |-> self.current_progress, newly_built |-> <<>> ] ]

\* line 288: stdout, stderr, completed = self._run_bash_output()
frame_fetched(self, fetched) ==
  [ self |-> self, stdout |-> fetched[1], stderr |-> fetched[2], completed |-> fetched[3],
    has_activity |-> FALSE, new_progress |-> 0, newly_built |-> <<>> ]

\* lines 290-292
frame_stderr(c) ==
  IF c.stderr # "" /\ In("error", lower(c.stderr))
  THEN [c EXCEPT !.self.errors = Append(@, [message |-> c.stderr, critical |-> TRUE]),
                 !.self.state = "failed"]
  ELSE c

\* line 295
frame_activity(c) == [c EXCEPT !.has_activity = _detect_build_activity(c.stdout)]

\* lines 297-301
frame_scheduler(c) ==
  IF c.has_activity
  THEN [c EXCEPT !.self.consecutive_no_activity = 0, !.self.current_interval_index = 0]
  ELSE [c EXCEPT !.self.consecutive_no_activity = @ + 1]

\* line 304
frame_new_progress(c) == [c EXCEPT !.new_progress = _extract_progress(c.self, c.stdout)]

\* lines 305-306
frame_progress(c) ==
  [c EXCEPT !.self.current_progress = merge_progress(@, c.new_progress)]

\* line 309; comp is what _extract_package_completions yields
frame_built(c, comp) ==
  [c EXCEPT !.newly_built = comp[1], !.self.packages_built = comp[2]]
frame_packages(c) == frame_built(c, _extract_package_completions(c.self, c.stdout))

\* lines 312-314; found is what _filter_errors_and_warnings yields
frame_found(c, found) ==
  [c EXCEPT !.self.errors = @ \o found[1], !.self.warnings = @ \o found[2]]
frame_errors(c) == frame_found(c, _filter_errors_and_warnings(c.self, c.stdout))

\* the phase is not recomputed
frame_state_skipped(c) == c

\* line 317
frame_state(c) ==
  [c EXCEPT !.self.state = _update_build_state(c.self, c.stdout, c.completed)]

\* lines 322-332
frame_return(c, duration) ==
  [ self |-> c.self, ret |-> BuildStatus(c.self, duration),
    locals |-> [ timeout |-> FALSE, fetched |-> TRUE, stdout |-> c.stdout,
                 stderr |-> c.stderr, completed |-> c.completed,
                 has_activity |-> c.has_activity, new_progress |-> c.new_progress,
                 newly_built |-> c.newly_built ] ]

\* the statement step applied to the frame c that the statements before it have left
Then(step(_), c) == CHOOSE after \in {step(before) : before \in {c}} : TRUE

\* check_build_status when time.time() - self.start_time reads duration and the fetch
\* command behaves as result: the monitor afterwards (self), the BuildStatus returned
\* (ret), and the locals of the call
check_build_status(self, duration, result) ==
  IF timed_out(self, duration)
  THEN timeout_return(self, duration)
  ELSE LET frame_returned(c) == frame_return(c, duration)
       IN Then(frame_returned, Then(frame_state, Then(frame_errors, Then(frame_packages,
            Then(frame_progress, Then(frame_new_progress, Then(frame_scheduler,
              Then(frame_activity, Then(frame_stderr,
                frame_fetched(self, _run_bash_output(result)))))))))))

\* the threshold off by one
backoff_due_early(self) == self.consecutive_no_activity > 1

\* `self.consecutive_no_activity > 2`
backoff_due(self) == self.consecutive_no_activity > 2

\* the index starts over after the last interval
next_index_wrapping(index) == (index + 1) % Len(wait_intervals)

\* lines 337-340: min(self.current_interval_index + 1, len(self.wait_intervals) - 1)
next_index(index) == Min2(index + 1, Len(wait_intervals) - 1)

\* get_next_wait_interval: the monitor afterwards and the interval returned
get_next_wait_interval(self) ==
  LET s1 == IF backoff_due(self)
            THEN [self EXCEPT !.current_interval_index = next_index(@)]
            ELSE self
  IN [ self |-> s1, ret |-> wait_intervals[s1.current_interval_index + 1] ]

\* TIMEOUT left out of the list
is_terminal_without_timeout(st) == st \in {"completed", "failed"}

\* `status.state in [COMPLETED, FAILED, TIMEOUT]`, the test that leaves the loop
is_terminal(st) == st \in {"completed", "failed", "timeout"}

(***************************************************************************)
(* The session: one monitor, and a client that either calls                *)
(* check_build_status and get_next_wait_interval directly or, as main()    *)
(* does, runs monitor_build_to_completion on the fresh monitor.            *)
(***************************************************************************)
VARIABLES
  monitor,           \* the FluffOSBuildMonitor object
  source,            \* what the fetch command can do in this session
  now,               \* time.time() - monitor.start_time, in seconds
  pc,                \* the client: "idle", a position in the loop, or "returned"
  status,            \* the BuildStatus returned by the last check_build_status
  wait_time,         \* the local wait_time of monitor_build_to_completion
  progress_callback, \* whether monitor_build_to_completion was given a callback
  call,              \* the locals of the last check_build_status call
  cli,               \* how the run of main() has ended, once it has
  trace              \* what has happened in the session so far

vars == <<monitor, source, now, pc, status, wait_time, progress_callback, call, cli, trace>>

NoStatus == [state |-> "none", progress |-> 0, packages_built |-> <<>>,
             packages_total |-> <<>>, errors |-> <<>>, warnings |-> <<>>, duration |-> 0]
NoCall == [timeout |-> FALSE, fetched |-> FALSE, stdout |-> "", stderr |-> "",
           completed |-> FALSE, has_activity |-> FALSE, new_progress |-> 0,
           newly_built |-> <<>>]

TerminalPhases == {"completed", "failed", "timeout"}

\* main() has not left its try block
Running == [outcome |-> "running", exit_code |-> -1, json |-> FALSE, success |-> FALSE]

\* --output-format
OutputFormats == {"text", "json"}

\* some critical-error pattern matches somewhere in the chunk
HasCriticalMarker(output) ==
  \E k \in 1..Len(critical_error_patterns) : re_search_ic(critical_error_patterns[k], output)

\* some line of the chunk that the noise patterns do not drop matches a critical-error pattern
HasCriticalLine(output) ==
  LET lines == split_lines(output)
  IN \E k \in 1..Len(lines) :
       strip(lines[k]) # "" /\ ~is_noise(strip(lines[k])) /\ is_error(strip(lines[k]))

Init ==
  /\ \E f \in FocusArgs, s \in Sessions :
       /\ monitor = __init__(f, s.max_duration)
       /\ source = s.source
  /\ now = 0
  /\ pc = "idle"
  /\ status = NoStatus
  /\ wait_time = 0
  /\ progress_callback = FALSE
  /\ call = NoCall
  /\ cli = Running
  /\ trace = [ checks |-> 0,            \* direct check_build_status calls
               waits |-> 0,             \* get_next_wait_interval calls of the loop since its last check
               sleeps |-> 0,            \* sleeps of the loop since its last check
               slept |-> 0,             \* the duration of the last sleep
               terminals |-> 0,         \* terminal statuses the loop has obtained
               delivered |-> 0,         \* callback calls with the status of the last check
               newly_built |-> <<>>,    \* all returns of _extract_package_completions, joined
               error_line_seen |-> FALSE, \* a fetched chunk had a line with a critical-error marker
               progress_before |-> 0,   \* current_progress when the last call began
               index_before |-> 0,      \* current_interval_index when the last call began
               base_index |-> 0,        \* current_interval_index after the last check with activity
               last_wait |-> 0 ]        \* the last return of get_next_wait_interval since that check

\* the effect of one check_build_status call on the session
DoCheck(result) ==
  \E r \in {check_build_status(monitor, now', result)} :
     /\ monitor' = r.self
     /\ status' = r.ret
     /\ call' = r.locals
     /\ trace' = [trace EXCEPT
           !.checks = IF pc = "idle" THEN @ + 1 ELSE @,
           !.waits = 0,
           !.sleeps = 0,
           !.delivered = 0,
           !.terminals = IF pc = "loop_check" /\ r.ret.state \in TerminalPhases
                         THEN @ + 1 ELSE @,
           !.newly_built = @ \o r.locals.newly_built,
           !.error_line_seen = @ \/ (r.locals.fetched /\ HasCriticalLine(r.locals.stdout)),
           !.progress_before = monitor.current_progress,
           !.index_before = monitor.current_interval_index,
           !.base_index = IF r.locals.has_activity THEN r.self.current_interval_index ELSE @,
           !.last_wait = IF r.locals.has_activity THEN 0 ELSE @ ]

\* a client calls check_build_status directly, some time after its previous call
CheckBuildStatus ==
  /\ pc = "idle"
  /\ trace.checks < (IF source = QuietResults THEN MaxQuietChecks ELSE MaxChecks)
  /\ \E dt \in ClockSteps : now' = now + dt
  /\ \E result \in source : DoCheck(result)
  /\ UNCHANGED <<source, pc, wait_time, progress_callback, cli>>

\* a client calls get_next_wait_interval directly
GetNextWaitInterval ==
  /\ pc = "idle"
  /\ \E r \in {get_next_wait_interval(monitor)} :
        /\ monitor' = r.self
        /\ trace' = [trace EXCEPT !.last_wait = r.ret]
  /\ UNCHANGED <<source, now, pc, status, wait_time, progress_callback, call, cli>>

\* main() calls monitor_build_to_completion on the monitor it has just built
StartMonitor ==
  /\ pc = "idle"
  /\ trace.checks = 0
  /\ pc' = "loop_check"
  /\ progress_callback' \in BOOLEAN
  /\ UNCHANGED <<monitor, source, now, status, wait_time, call, cli, trace>>

\* lines 356-377: one check, the reports, and the test that leaves the loop
MonitorCheck ==
  /\ pc = "loop_check"
  /\ now' = now
  /\ \E result \in source : DoCheck(result)
  /\ pc' = IF is_terminal(status'.state) THEN "returned" ELSE "loop_callback"
  /\ UNCHANGED <<source, wait_time, progress_callback, cli>>

\* lines 380-381: the callback, when there is one
MonitorCallback ==
  /\ pc = "loop_callback"
  /\ pc' = "loop_wait"
  /\ trace' = [trace EXCEPT !.delivered = IF progress_callback THEN @ + 1 ELSE @]
  /\ UNCHANGED <<monitor, source, now, status, wait_time, progress_callback, call, cli>>

\* line 384
MonitorWait ==
  /\ pc = "loop_wait"
  /\ \E r \in {get_next_wait_interval(monitor)} :
        /\ monitor' = r.self
        /\ wait_time' = r.ret
        /\ trace' = [trace EXCEPT !.waits = @ + 1, !.last_wait = r.ret]
  /\ pc' = "loop_sleep"
  /\ UNCHANGED <<source, now, status, progress_callback, call, cli>>

\* the sleep returns without the clock having moved
sleep_returns_at_once(clock, seconds) == clock

\* time.sleep(seconds): the reading of the clock when the sleep returns
sleep(clock, seconds) == clock + seconds

\* line 385: time.sleep(wait_time)
MonitorSleep ==
  /\ pc = "loop_sleep"
  /\ now' = sleep(now, wait_time)
  /\ trace' = [trace EXCEPT !.sleeps = @ + 1, !.slept = wait_time]
  /\ pc' = "loop_check"
  /\ UNCHANGED <<monitor, source, status, wait_time, progress_callback, call, cli>>

\* the exit code is 0 for every phase but Failed
exit_code_unless_failed(state) == IF state = "failed" THEN 1 ELSE 0

\* line 445: exit_code = 0 if status.state == BuildState.COMPLETED else 1
exit_code_of(state) == IF state = "completed" THEN 0 ELSE 1

\* main() with --single-check: one check_build_status call on the monitor it has
\* just built
MainSingleCheck ==
  /\ pc = "idle"
  /\ trace.checks = 0
  /\ now' = now
  /\ \E result \in source : DoCheck(result)
  /\ pc' = "checked"
  /\ UNCHANGED <<source, wait_time, progress_callback, cli>>

\* lines 431-446 of main(): the JSON report when asked for, and sys.exit with the
\* code of the final status (--output-format is read here for the first time)
MainExit ==
  /\ \/ pc = "checked"
     \/ pc = "returned" /\ ~progress_callback
  /\ \E format \in OutputFormats :
       cli' = [ outcome |-> "status",
                exit_code |-> exit_code_of(status.state),
                json |-> format = "json",
                success |-> format = "json" /\ status.state = "completed" ]
  /\ pc' = "exited"
  /\ UNCHANGED <<monitor, source, now, status, wait_time, progress_callback, call, trace>>

\* lines 448-450 of main(): KeyboardInterrupt raised while the run is in
\* subprocess.run (the fetch of a check) or in time.sleep
MainInterrupted ==
  /\ \/ pc = "idle" /\ trace.checks = 0
     \/ pc \in {"loop_check", "loop_sleep"} /\ ~progress_callback
  /\ cli' = [outcome |-> "interrupted", exit_code |-> 130, json |-> FALSE, success |-> FALSE]
  /\ pc' = "exited"
  /\ UNCHANGED <<monitor, source, now, status, wait_time, progress_callback, call, trace>>

\* lines 451-453 of main(): an exception other than KeyboardInterrupt leaves the
\* try block, here from the print calls that open monitor_build_to_completion
\* (standard output closed or unable to encode the banner)
MainException ==
  /\ pc = "idle" /\ trace.checks = 0
  /\ cli' = [outcome |-> "exception", exit_code |-> 1, json |-> FALSE, success |-> FALSE]
  /\ pc' = "exited"
  /\ UNCHANGED <<monitor, source, now, status, wait_time, progress_callback, call, trace>>

Next ==
  \/ CheckBuildStatus
  \/ GetNextWaitInterval
  \/ StartMonitor
  \/ MonitorCheck
  \/ MonitorCallback
  \/ MonitorWait
  \/ MonitorSleep
  \/ MainSingleCheck
  \/ MainExit
  \/ MainInterrupted
  \/ MainException

Spec == Init /\ [][Next]_vars

\* The loop of monitor_build_to_completion runs on: subprocess.run returns (it is
\* given timeout=10) and time.sleep returns, so each step of the loop that can be
\* taken is taken.  A client that makes direct calls may stop at any time.
LoopFairness ==
  /\ WF_vars(MonitorCheck)
  /\ WF_vars(MonitorCallback)
  /\ WF_vars(MonitorWait)
  /\ WF_vars(MonitorSleep)

LiveSpec == Init /\ [][Next]_vars /\ LoopFairness

(***************************************************************************)
(* Properties.                                                             *)
(***************************************************************************)
NoDup(seq) == \A i, j \in 1..Len(seq) : i # j => seq[i] # seq[j]
IsPrefix(a, b) == Len(a) <= Len(b) /\ SubSeq(b, 1, Len(a)) = a

RECURSIVE JoinLines(_)
JoinLines(lines) ==
  IF lines = <<>> THEN ""
  ELSE IF Len(lines) = 1 THEN lines[1]
  ELSE lines[1] \o "\n" \o JoinLines(Tail(lines))

IsNoiseLine(line) == strip(line) # "" /\ is_noise(strip(line))
KeepLine(line) == ~IsNoiseLine(line)

\* the chunk without the lines that match a noise pattern
RemoveNoise(output) == JoinLines(SelectSeq(split_lines(output), KeepLine))

FinalTargetBuilt(output) == In("built target driver", lower(output))

\* C1: the progress reported by a check_build_status call is greater than or equal
\* to the progress reported by every earlier call of the session, whatever the
\* chunks are and in whatever order they come.
C1_ProgressNonDecreasing ==
  [][status.state # "none" => status'.progress >= status.progress]_vars

\* a call whose chunk yields less progress than is retained, and the retained value is reported
C1_Witness ==
  /\ call.fetched
  /\ progress_matches(call.stdout) # {}
  /\ call.new_progress < trace.progress_before
  /\ status.progress = trace.progress_before

\* C2 (as stated): once a fetched chunk has contained a critical-error marker (in a
\* line that the noise patterns do not drop), that call and every later call of the
\* session return Failed, whatever chunks and process-completed flags they see.
C2_FailedForever == trace.error_line_seen => status.state = "failed"

\* C2 (amended): once a fetched chunk has contained a critical-error marker (in a
\* line that the noise patterns do not drop), that call and every later call return
\* Failed, except the calls that find the time limit exceeded and the calls that see
\* the process completed with progress >= 100 or the final-target-built marker.
C2_FailedUnlessTimeoutOrCompleted ==
  ( /\ trace.error_line_seen
    /\ ~call.timeout
    /\ ~(call.completed /\ (status.progress >= 100 \/ FinalTargetBuilt(call.stdout))) )
  => status.state = "failed"

\* a later call whose own chunk has no marker still returns Failed
C2_Witness ==
  /\ trace.error_line_seen
  /\ call.fetched
  /\ ~HasCriticalMarker(call.stdout)
  /\ call.has_activity
  /\ status.state = "failed"

\* C3: no two entries of the errors list have the same message and no two entries
\* of the warnings list have the same message.
C3_NoDuplicateMessages ==
  NoDup(Messages(monitor.errors)) /\ NoDup(Messages(monitor.warnings))

\* C4: a target in the built set is never removed from it, is returned as newly
\* built at most once in the session, and the built set never holds a target twice.
C4_BuiltOnce ==
  [][ /\ IsPrefix(monitor.packages_built, monitor'.packages_built)
      /\ NoDup(monitor'.packages_built)
      /\ NoDup(trace'.newly_built) ]_vars

\* the tracked list repeats a name, the target is built, and a later chunk repeats
\* its built marker without it being returned again
C4_Witness ==
  /\ ~NoDup(monitor.focus_packages)
  /\ InSeq("http", monitor.packages_built)
  /\ call.fetched
  /\ re_search_ic(built_pattern("http"), call.stdout)
  /\ call.newly_built = <<>>

\* C5: a check_build_status call that finds the elapsed time above max_duration
\* returns Timeout whatever the previous phase and the recorded errors are, and
\* every later call of the session returns Timeout too.
C5_TimeoutWins ==
  [][ /\ (status'.state # "none" /\ status'.duration > monitor'.max_duration)
           => status'.state = "timeout"
      /\ status.state = "timeout" => status'.state = "timeout" ]_vars

\* a session with a recorded critical error whose last call returned Timeout
C5_Witness ==
  /\ status.state = "timeout"
  /\ has_critical_error(monitor)
  /\ trace.checks = 2

\* C6: a line that matches a noise pattern has no effect on a check: it is not
\* recorded as an error or a warning, and the activity flag and the progress
\* extracted are those of the chunk without its noise lines.
C6_NoiseHasNoEffect ==
  call.fetched =>
    /\ \A k \in 1..Len(monitor.errors) :
         "package_related" \in DOMAIN monitor.errors[k] => ~is_noise(monitor.errors[k].message)
    /\ \A k \in 1..Len(monitor.warnings) : ~is_noise(monitor.warnings[k].message)
    /\ call.has_activity = _detect_build_activity(RemoveNoise(call.stdout))
    /\ call.new_progress =
         _extract_progress([monitor EXCEPT !.current_progress = trace.progress_before],
                           RemoveNoise(call.stdout))

\* C7: in the polling cycle, after a check with activity the interval index and the
\* inactivity counter are 0 and the next wait is the first interval, whatever the
\* streak before; after the first and the second inactive check that follow, the
\* index is still the one the check with activity left, and after the third it is
\* exactly one more.
C7_BackoffAfterThree ==
  pc = "loop_sleep" =>
    /\ call.has_activity =>
         /\ monitor.current_interval_index = 0
         /\ monitor.consecutive_no_activity = 0
         /\ wait_time = wait_intervals[1]
    /\ monitor.consecutive_no_activity \in {1, 2} =>
         monitor.current_interval_index = trace.base_index
    /\ monitor.consecutive_no_activity = 3 =>
         monitor.current_interval_index = trace.base_index + 1

\* the index had been raised by a streak of inactive checks, and a check with
\* activity has set it back
C7_Witness ==
  /\ pc = "loop_sleep"
  /\ call.has_activity
  /\ trace.index_before >= 1
  /\ monitor.current_interval_index = 0

\* C8: the progress held by the monitor and the progress of every BuildStatus is
\* in 0..100.
C8_ProgressInRange ==
  monitor.current_progress \in 0..100 /\ status.progress \in 0..100

\* C9: when the process-completed flag is true and the call is not timed out, the
\* phase is Completed if progress >= 100 or the chunk has the final-target-built
\* marker; otherwise Failed if and only if a critical error is recorded, and
\* Completed otherwise.
C9_CompletedPhase ==
  (call.fetched /\ call.completed) =>
    status.state =
      IF status.progress >= 100 \/ FinalTargetBuilt(call.stdout) THEN "completed"
      ELSE IF has_critical_error(monitor) THEN "failed"
      ELSE "completed"

\* C10: monitor_build_to_completion returns only a terminal status and stops at the
\* first one: after it there is no wait and no sleep; after every other status
\* there is exactly one get_next_wait_interval call and one sleep of the duration
\* it returned before the next check.
C10_LoopStopsAtTerminal ==
  /\ pc = "returned" =>
       /\ status.state \in TerminalPhases
       /\ trace.terminals = 1 /\ trace.waits = 0 /\ trace.sleeps = 0
  /\ pc \in {"loop_callback", "loop_wait"} =>
       /\ status.state \notin TerminalPhases
       /\ trace.terminals = 0 /\ trace.waits = 0 /\ trace.sleeps = 0
  /\ pc = "loop_sleep" =>
       /\ status.state \notin TerminalPhases
       /\ trace.terminals = 0 /\ trace.waits = 1 /\ trace.sleeps = 0
  /\ (pc = "loop_check" /\ status.state # "none") =>
       /\ status.state \notin TerminalPhases
       /\ trace.terminals = 0 /\ trace.waits = 1 /\ trace.sleeps = 1
       /\ trace.slept = wait_time
       /\ wait_time = wait_intervals[monitor.current_interval_index + 1]

\* the loop has returned a Completed status after at least one wait and sleep
C10_Witness ==
  /\ pc = "returned"
  /\ status.state = "completed"
  /\ trace.slept > 0

\* a step of the session that is one check_build_status call
IsCheckStep ==
  \/ pc = "idle" /\ trace'.checks = trace.checks + 1
  \/ pc = "loop_check" /\ pc' \in {"returned", "loop_callback"}

Chunk42 == "[ 42%] Building CXX object core.cc.o"
Chunk80 == "[ 80%] Built target package_http"

\* C11: with the tracked targets ["http"], a first call on the chunk
\* "[ 42%] Building CXX object core.cc.o" yields progress 42 and an empty built
\* set, and a second call on "[ 80%] Built target package_http" yields progress 80
\* and the built set [http]; in general a tracked target is in the built set after
\* a call exactly if it was there before or the chunk of the call has its built
\* marker, and it is returned as newly built exactly in the second case alone.
C11_ProgressAndBuiltSequence ==
  [][ IsCheckStep =>
      /\ ( /\ monitor.focus_packages = <<"http">>
           /\ status.state = "none"
           /\ call'.stdout = Chunk42 )
         => (status'.progress = 42 /\ status'.packages_built = <<>>)
      /\ ( /\ monitor.focus_packages = <<"http">>
           /\ pc = "idle" /\ trace.checks = 1
           /\ call.stdout = Chunk42
           /\ call'.stdout = Chunk80 )
         => (status'.progress = 80 /\ status'.packages_built = <<"http">>)
      /\ \A k \in 1..Len(monitor.focus_packages) :
           LET package == monitor.focus_packages[k]
               marked == call'.fetched /\ re_search_ic(built_pattern(package), call'.stdout)
           IN /\ InSeq(package, monitor'.packages_built)
                   <=> (InSeq(package, monitor.packages_built) \/ marked)
              /\ InSeq(package, call'.newly_built)
                   <=> (~InSeq(package, monitor.packages_built) /\ marked) ]_vars

\* the two calls of the scenario have been made
C11_Witness ==
  /\ monitor.focus_packages = <<"http">>
  /\ trace.checks = 2
  /\ trace.progress_before = 42
  /\ call.stdout = Chunk80
  /\ call.newly_built = <<"http">>
  /\ status.progress = 80
  /\ status.packages_built = <<"http">>

\* C12: the run of main() exits with code 0 exactly if it obtained a final status
\* whose phase is Completed, with code 130 when it was interrupted at a fetch or a
\* sleep, and with code 1 otherwise (Failed, Timeout, a non-terminal phase of a
\* single check, an unexpected exception); the success field of the JSON report
\* is true exactly if the phase is Completed.
C12_ExitCodes ==
  /\ pc # "exited" => cli = Running
  /\ pc = "exited" =>
       /\ cli.exit_code \in {0, 1, 130}
       /\ cli.exit_code = 0 <=> (cli.outcome = "status" /\ status.state = "completed")
       /\ cli.exit_code = 130 <=> cli.outcome = "interrupted"
       /\ cli.json => (cli.success <=> status.state = "completed")

\* a single check has ended in a non-terminal phase, and the run has exited with 1
C12_Witness ==
  /\ pc = "exited"
  /\ cli.outcome = "status"
  /\ trace.checks = 1
  /\ status.state \in {"configuring", "compiling_core", "compiling_packages", "linking"}
  /\ cli.json /\ ~cli.success
  /\ cli.exit_code = 1

\* the marker _update_build_state takes for the configuration step
ConfigurationMarker(output) == In("cmake", lower(output))

\* C13: when the process-completed flag is false, no critical error is recorded and
\* the call is not timed out, the phase returned follows from the retained progress
\* p and the chunk, first match winning: Configuring if the chunk has a
\* configuration marker and p < 30, else CompilingCore if p < 50, else
\* CompilingPackages if p < 80, else Linking if p < 100, else Completed; and no
\* call returns the phase Starting.
C13_PhaseFromProgress ==
  /\ status.state # "starting"
  /\ (call.fetched /\ ~call.completed /\ ~has_critical_error(monitor)) =>
       status.state =
         IF ConfigurationMarker(call.stdout) /\ status.progress < 30 THEN "configuring"
         ELSE IF status.progress < 50 THEN "compiling_core"
         ELSE IF status.progress < 80 THEN "compiling_packages"
         ELSE IF status.progress < 100 THEN "linking"
         ELSE "completed"

\* a chunk with the configuration marker arrives when the retained progress is
\* already 30 or more: the phase is CompilingCore, not Configuring
C13_Witness ==
  /\ call.fetched /\ ~call.completed
  /\ ~has_critical_error(monitor)
  /\ ConfigurationMarker(call.stdout)
  /\ status.progress \in 30..49
  /\ status.state = "compiling_core"

\* the floors of the milestones whose textual marker the chunk contains
MilestoneFloors(self, output) ==
  LET low == lower(output)
  IN {f \in Range(milestones) :
        \/ f = milestones.cmake_start /\ In("cmake", low) /\ In("configuring", low)
        \/ f = milestones.cmake_done /\ In("generating done", low)
        \/ f = milestones.core_start /\ In("building cxx object", low)
        \/ f = milestones.packages_start
             /\ \E k \in 1..Len(self.focus_packages) :
                  In("package_" \o self.focus_packages[k], low)
        \/ f = milestones.linking_start /\ In("linking", low) /\ In("executable", low)
        \/ f = milestones.build_complete
             /\ In("built target", low) /\ (In("driver", low) \/ In("100%", output))}

\* C14: after a call on a chunk without a numeric progress marker, the progress is
\* at least the floor of every milestone whose textual marker the chunk contains
\* (10, 20, 30, 50, 80, 100), also when the chunk contains the markers of several
\* milestones.
C14_MilestoneFloors ==
  (call.fetched /\ progress_matches(call.stdout) = {}) =>
    \A f \in MilestoneFloors(monitor, call.stdout) : status.progress >= f

\* the entries of the errors and of the warnings list whose message is text
Recorded(self, text) ==
  {self.errors[k] : k \in {j \in 1..Len(self.errors) : self.errors[j].message = text}}
  \cup {self.warnings[k] : k \in {j \in 1..Len(self.warnings) : self.warnings[j].message = text}}

\* C15: a failure to fetch the output whose error text has no critical-error
\* marker is recorded as a non-critical entry and does not make the phase Failed;
\* a fetch failure whose error text has a critical-error marker makes the phase
\* Failed on that call.
C15_FetchFailureDiagnostics ==
  (call.fetched /\ call.stderr \in FetchErrorTexts) =>
    IF HasCriticalMarker(call.stderr)
    THEN status.state = "failed"
    ELSE /\ \E entry \in Recorded(monitor, call.stderr) : ~IsCritical(entry)
         /\ (\A k \in 1..Len(monitor.errors) :
               IsCritical(monitor.errors[k]) => monitor.errors[k].message = call.stderr)
            => status.state # "failed"

\* a step of the session that is one get_next_wait_interval call
IsWaitStep ==
  \/ pc = "idle" /\ pc' = "idle" /\ trace'.checks = trace.checks
  \/ pc = "loop_wait" /\ pc' = "loop_sleep"

LastIndex == Len(wait_intervals) - 1

\* C16: the interval index stays within the bounds of the six-entry interval
\* sequence; a get_next_wait_interval call raises it by at most one and never above
\* the last index, and returns the interval at the resulting index; within a streak
\* of checks without activity the returned waits never decrease and stay at 900
\* once the last index is reached; any other step leaves the index or resets it
\* to 0.
C16_IntervalIndex ==
  [][ /\ monitor'.current_interval_index \in 0..LastIndex
      /\ IsWaitStep =>
           /\ monitor'.current_interval_index - monitor.current_interval_index \in {0, 1}
           /\ trace'.last_wait = wait_intervals[monitor'.current_interval_index + 1]
           /\ trace'.last_wait >= trace.last_wait
           /\ trace.last_wait = 900 => trace'.last_wait = 900
           /\ pc = "loop_wait" => wait_time' = trace'.last_wait
      /\ ~IsWaitStep =>
           monitor'.current_interval_index \in {monitor.current_interval_index, 0} ]_vars

\* the loop has reached the last index in a streak without activity, has made
\* another check without activity and has been given 900 again
C16_Witness ==
  /\ pc = "loop_sleep"
  /\ trace.index_before = LastIndex
  /\ monitor.current_interval_index = LastIndex
  /\ monitor.consecutive_no_activity >= 8
  /\ wait_time = 900

\* C17: a check_build_status call that finds the elapsed time above max_duration
\* does not fetch the output and changes nothing of the monitor but the phase,
\* which becomes Timeout: progress, built set, errors, warnings, interval index and
\* inactivity counter are as before, and the status returned carries them.
C17_TimeoutFrame ==
  [][ (IsCheckStep /\ now' > monitor.max_duration) =>
        /\ ~call'.fetched
        /\ monitor' = [monitor EXCEPT !.state = "timeout"]
        /\ status'.state = "timeout"
        /\ status'.progress = monitor.current_progress
        /\ status'.packages_built = monitor.packages_built
        /\ status'.errors = monitor.errors
        /\ status'.warnings = monitor.warnings ]_vars

\* a call has timed out on a monitor that had progress, an error and a scheduler
\* streak to keep
C17_Witness ==
  /\ call.timeout
  /\ status.state = "timeout"
  /\ status.progress > 0
  /\ status.errors # <<>>
  /\ monitor.consecutive_no_activity > 0

\* C18: when every fetch returns and every sleep advances the clock by the wait
\* asked for, monitor_build_to_completion eventually returns, with a terminal
\* phase, whatever the chunks and completed flags are, also for a build that
\* never prints anything and never completes (unless the run is interrupted).
C18_LoopReturns ==
  (pc = "loop_check")
    ~> ((pc = "returned" /\ status.state \in TerminalPhases) \/ cli.outcome = "interrupted")

\* the loop has returned Timeout for a build that printed nothing in any check
C18_Witness ==
  /\ pc = "returned"
  /\ status.state = "timeout"
  /\ status.progress = 0
  /\ monitor.consecutive_no_activity >= 9
  /\ monitor.max_duration = 3600

\* C19: in every polling cycle of monitor_build_to_completion with a callback set,
\* the status obtained in the cycle is delivered to the callback before the loop
\* decides whether to continue: every status the loop obtains, the terminal one
\* that ends the loop included, is delivered exactly once.
C19_EveryStatusDelivered ==
  progress_callback =>
    /\ pc \in {"loop_wait", "loop_sleep", "returned"} => trace.delivered = 1
    /\ (pc = "loop_check" /\ status.state # "none") => trace.delivered = 1

\* the lines of a chunk as _filter_errors_and_warnings looks at them
StrippedLines(output) == {strip(l) : l \in Range(split_lines(output))} \ {""}

\* C20 (as stated): the warnings list is always empty and the reported warning
\* count is 0; every line of a fetched chunk that is both a warning and
\* target-related is retained in the errors list with critical = false.
C20_AllPromotedNonCritical ==
  /\ monitor.warnings = <<>> /\ Len(status.warnings) = 0
  /\ call.fetched =>
       \A line \in StrippedLines(call.stdout) :
         (is_warning(line) /\ is_package_related(line, monitor.focus_packages)) =>
           \E k \in 1..Len(monitor.errors) :
             monitor.errors[k].message = line /\ ~IsCritical(monitor.errors[k])

\* C20 (amended): the warnings list is always empty and the reported warning count
\* is 0; every line of a fetched chunk that is both a warning and target-related
\* and that no noise pattern drops is in the errors list after the call, and an
\* entry made from a line of a chunk is critical exactly if the line matches a
\* critical-error pattern (so a target-related warning without such a marker is
\* held as non-critical).
C20_WarningsEmpty ==
  /\ monitor.warnings = <<>> /\ Len(status.warnings) = 0
  /\ call.fetched =>
       \A line \in StrippedLines(call.stdout) :
         ( /\ ~is_noise(line)
           /\ is_warning(line)
           /\ is_package_related(line, monitor.focus_packages) ) =>
           InSeq(line, Messages(monitor.errors))
  /\ \A k \in 1..Len(monitor.errors) :
       "package_related" \in DOMAIN monitor.errors[k] =>
         (monitor.errors[k].critical <=> is_error(monitor.errors[k].message))

\* the entries of the errors list that come from a target-related warning line
PromotedWarnings(self) ==
  {self.errors[k] : k \in {j \in 1..Len(self.errors) :
      /\ "package_related" \in DOMAIN self.errors[j]
      /\ self.errors[j].package_related
      /\ is_warning(self.errors[j].message)}}

\* the errors list holds a target-related warning as non-critical and another,
\* which has a critical-error marker too, as critical; the last chunk also had a
\* target-related warning that a noise pattern dropped; the warnings list is empty
C20_Witness ==
  /\ call.fetched
  /\ \E e \in PromotedWarnings(monitor) : ~e.critical
  /\ \E e \in PromotedWarnings(monitor) :
       e.critical /\ e.message \in StrippedLines(call.stdout)
  /\ \E line \in StrippedLines(call.stdout) :
       /\ is_noise(line) /\ is_warning(line)
       /\ is_package_related(line, monitor.focus_packages)
       /\ ~InSeq(line, Messages(monitor.errors))
  /\ monitor.warnings = <<>>

====
